---- MODULE Spec2Model ----
(***************************************************************************)
(* Model of server.js: the POST /analyze handler (browser acquisition,     *)
(* in-page extraction, vibe classification, response, browser release).    *)
(*                                                                         *)
(* Page strings (colours, class names, locators) are sequences of          *)
(* one-character strings, so that the conversions the code applies         *)
(* (match(/\d+/g), parseInt, toString(16), toUpperCase, includes) are      *)
(* computed and not assumed.                                               *)
(***************************************************************************)
EXTENDS Integers, Sequences, FiniteSets, TLC

(* ------------------------------------------------------------------ *)
(* JavaScript values                                                   *)
(* ------------------------------------------------------------------ *)

\* null / undefined for a string-valued slot: a sequence whose only element
\* is not a single character, hence different from every page string.
Null == <<"null">>

\* JavaScript truthiness of a string-or-null value.
Truthy(s) == s # Null /\ s # <<>>

DigitChars == <<"0", "1", "2", "3", "4", "5", "6", "7", "8", "9">>

HexLower == <<"0", "1", "2", "3", "4", "5", "6", "7", "8", "9",
              "a", "b", "c", "d", "e", "f">>

LowerChars == <<"a", "b", "c", "d", "e", "f", "g", "h", "i", "j", "k", "l", "m",
                "n", "o", "p", "q", "r", "s", "t", "u", "v", "w", "x", "y", "z">>

UpperChars == <<"A", "B", "C", "D", "E", "F", "G", "H", "I", "J", "K", "L", "M",
                "N", "O", "P", "Q", "R", "S", "T", "U", "V", "W", "X", "Y", "Z">>

IsDigit(c) == \E i \in 1..Len(DigitChars) : DigitChars[i] = c

DigitValue(c) == (CHOOSE i \in 1..Len(DigitChars) : DigitChars[i] = c) - 1

\* String.prototype.toUpperCase
toUpperCase(s) ==
    [i \in 1..Len(s) |->
        IF \E k \in 1..Len(LowerChars) : LowerChars[k] = s[i]
        THEN UpperChars[CHOOSE k \in 1..Len(LowerChars) : LowerChars[k] = s[i]]
        ELSE s[i]]

\* String.prototype.toLowerCase
toLowerCase(s) ==
    [i \in 1..Len(s) |->
        IF \E k \in 1..Len(UpperChars) : UpperChars[k] = s[i]
        THEN LowerChars[CHOOSE k \in 1..Len(UpperChars) : UpperChars[k] = s[i]]
        ELSE s[i]]

\* String.prototype.includes
includes(s, t) ==
    \E i \in 1..(Len(s) - Len(t) + 1) : SubSeq(s, i, i + Len(t) - 1) = t

\* rgb.match(/\d+/g): the maximal runs of digits, left to right.  The empty
\* sequence stands for the null that match returns when nothing matches.
RECURSIVE DigitRuns(_, _, _)
DigitRuns(s, cur, acc) ==
    IF s = <<>>
    THEN IF cur = <<>> THEN acc ELSE Append(acc, cur)
    ELSE IF IsDigit(Head(s))
         THEN DigitRuns(Tail(s), Append(cur, Head(s)), acc)
         ELSE DigitRuns(Tail(s), <<>>, IF cur = <<>> THEN acc ELSE Append(acc, cur))

match(rgb) == DigitRuns(rgb, <<>>, <<>>)

\* parseInt of a run of decimal digits.
RECURSIVE parseInt(_)
parseInt(s) ==
    IF s = <<>> THEN 0
    ELSE parseInt(SubSeq(s, 1, Len(s) - 1)) * 10 + DigitValue(s[Len(s)])

\* n << k.  The operands of the model have at most three digits, so the
\* 32-bit shift never wraps.
ShiftLeft(n, k) == n * (2 ^ k)

\* Number.prototype.toString(16) of a non-negative integer (lower case).
RECURSIVE toString16(_)
toString16(n) ==
    IF n < 16 THEN <<HexLower[n + 1]>>
    ELSE toString16(n \div 16) \o <<HexLower[(n % 16) + 1]>>

\* String.prototype.slice(1)
slice1(s) == SubSeq(s, 2, Len(s))

(* ------------------------------------------------------------------ *)
(* 1. Colours                                                          *)
(* ------------------------------------------------------------------ *)

White == <<"#", "F", "F", "F", "F", "F", "F">>
Black == <<"#", "0", "0", "0", "0", "0", "0">>
TransparentBlack == <<"#", "0", "0", "0", "0", "0", "0", "0", "0">>

\* 'rgba(0, 0, 0, 0)', the computed value of a fully transparent background.
TransparentRgba ==
    <<"r", "g", "b", "a", "(", "0", ",", " ", "0", ",", " ", "0", ",", " ", "0", ")">>

NoneKeyword == <<"n", "o", "n", "e">>

ThemeWeight == 20
HeaderBackgroundWeight == 10
HeaderTextWeight == 5
HeaderVectorWeight == 8
DocumentBackgroundWeight == 3
PaletteSize == 8

rgbToHex(rgb) ==
    IF ~Truthy(rgb) THEN Null
    ELSE IF Head(rgb) = "#" THEN rgb
    ELSE LET result == match(rgb) IN
         IF Len(result) < 3 THEN Null
         ELSE <<"#">> \o toUpperCase(slice1(toString16(
                  ShiftLeft(1, 24) + ShiftLeft(parseInt(result[1]), 16)
                  + ShiftLeft(parseInt(result[2]), 8) + parseInt(result[3]))))

\* colorCounts is an object keyed by hex string; every key starts with "#",
\* so its enumeration order is insertion order: a sequence of entries.
addColor(colorCounts, c, weight) ==
    LET hex == rgbToHex(c) IN
    IF Truthy(hex) /\ hex # White /\ hex # Black /\ hex # TransparentBlack
    THEN IF \E i \in 1..Len(colorCounts) : colorCounts[i].hex = hex
         THEN [i \in 1..Len(colorCounts) |->
                  IF colorCounts[i].hex = hex
                  THEN [hex |-> hex, weight |-> colorCounts[i].weight + weight]
                  ELSE colorCounts[i]]
         ELSE Append(colorCounts, [hex |-> hex, weight |-> weight])
    ELSE colorCounts

\* Words of a class attribute (split on spaces), for the .button/.btn selectors.
RECURSIVE ClassTokens(_, _, _)
ClassTokens(s, cur, acc) ==
    IF s = <<>>
    THEN IF cur = <<>> THEN acc ELSE acc \cup {cur}
    ELSE IF Head(s) = " "
         THEN ClassTokens(Tail(s), <<>>, IF cur = <<>> THEN acc ELSE acc \cup {cur})
         ELSE ClassTokens(Tail(s), Append(cur, Head(s)), acc)

hasClass(e, name) == name \in ClassTokens(e.className, <<>>, {})

BtnText == <<"b", "t", "n">>
ButtonText == <<"b", "u", "t", "t", "o", "n">>

\* header.querySelectorAll('button, a[class*="btn"], a[class*="button"]')
MatchesHeaderButton(e) ==
    /\ e.inHeader
    /\ \/ e.tag = "button"
       \/ e.tag = "a" /\ includes(e.className, BtnText)
       \/ e.tag = "a" /\ includes(e.className, ButtonText)

\* header.querySelectorAll('svg path, svg rect, svg circle, svg g, svg')
MatchesHeaderSvg(e) ==
    /\ e.inHeader
    /\ \/ e.tag = "svg"
       \/ e.inSvg /\ e.tag \in {"path", "rect", "circle", "g"}

\* document.querySelectorAll('button, a[class*="btn"], .button, .btn')
MatchesButton(e) ==
    \/ e.tag = "button"
    \/ e.tag = "a" /\ includes(e.className, BtnText)
    \/ hasClass(e, ButtonText)
    \/ hasClass(e, BtnText)

\* headerButtons.forEach(btn => { ... })
RECURSIVE ScanHeaderButtons(_, _)
ScanHeaderButtons(elems, cc) ==
    IF elems = <<>> THEN cc
    ELSE LET btn == Head(elems) IN
         IF MatchesHeaderButton(btn)
         THEN LET withBg == addColor(cc, btn.backgroundColor, HeaderBackgroundWeight) IN
              ScanHeaderButtons(Tail(elems),
                  IF btn.backgroundColor = TransparentRgba
                  THEN addColor(withBg, btn.color, HeaderTextWeight)
                  ELSE withBg)
         ELSE ScanHeaderButtons(Tail(elems), cc)

\* headerSvgs.forEach(svgPart => { ... })
RECURSIVE ScanHeaderSvgs(_, _)
ScanHeaderSvgs(elems, cc) ==
    IF elems = <<>> THEN cc
    ELSE LET svgPart == Head(elems) IN
         IF MatchesHeaderSvg(svgPart)
         THEN LET withFill ==
                      IF Truthy(svgPart.fill) /\ svgPart.fill # NoneKeyword
                      THEN addColor(cc, svgPart.fill, HeaderVectorWeight) ELSE cc
              IN ScanHeaderSvgs(Tail(elems),
                     IF Truthy(svgPart.stroke) /\ svgPart.stroke # NoneKeyword
                     THEN addColor(withFill, svgPart.stroke, HeaderVectorWeight)
                     ELSE withFill)
         ELSE ScanHeaderSvgs(Tail(elems), cc)

\* buttons.forEach(btn => addColor(bg, 3))
RECURSIVE ScanButtons(_, _)
ScanButtons(elems, cc) ==
    IF elems = <<>> THEN cc
    ELSE ScanButtons(Tail(elems),
             IF MatchesButton(Head(elems))
             THEN addColor(cc, Head(elems).backgroundColor, DocumentBackgroundWeight)
             ELSE cc)

\* Sections A-D of the colour scan: the final colorCounts.
\* tree.elems lists the document's elements in document order; inHeader marks
\* the descendants of document.querySelector('header') || ...('nav').
colorCountsOf(tree) ==
    LET a == IF tree.themeColor # Null
             THEN addColor(<<>>, tree.themeColor, ThemeWeight) ELSE <<>>
        b == ScanHeaderButtons(tree.elems, a)
        c == ScanHeaderSvgs(tree.elems, b)
    IN ScanButtons(tree.elems, c)

\* Array.prototype.sort((a, b) => b[1] - a[1]): stable, weight descending.
\* Insertion of x behind every entry that does not weigh less.
RECURSIVE InsertByWeight(_, _)
InsertByWeight(sorted, x) ==
    IF sorted = <<>> THEN <<x>>
    ELSE IF Head(sorted).weight >= x.weight
         THEN <<Head(sorted)>> \o InsertByWeight(Tail(sorted), x)
         ELSE <<x>> \o sorted

RECURSIVE SortByWeight(_, _)
SortByWeight(entries, sorted) ==
    IF entries = <<>> THEN sorted
    ELSE SortByWeight(Tail(entries), InsertByWeight(sorted, Head(entries)))

\* .slice(0, 8)
slice08(s) == SubSeq(s, 1, IF Len(s) < PaletteSize THEN Len(s) ELSE PaletteSize)

sortedColors(tree) ==
    LET s == slice08(SortByWeight(colorCountsOf(tree), <<>>))
    IN [i \in 1..Len(s) |-> s[i].hex]

\* sortedColors[0] || '#000000'
primaryColor(palette) ==
    IF palette # <<>> THEN palette[1] ELSE Black

(* ------------------------------------------------------------------ *)
(* 2. Logo                                                             *)
(* ------------------------------------------------------------------ *)

LogoText == <<"l", "o", "g", "o">>

\* The predicate of the find() over 'header img, nav img'.
IsLogoImg(img) ==
    \/ Truthy(img.className) /\ includes(toLowerCase(img.className), LogoText)
    \/ Truthy(img.src) /\ includes(toLowerCase(img.src), LogoText)
    \/ Truthy(img.alt) /\ includes(toLowerCase(img.alt), LogoText)

\* Array.from(document.querySelectorAll('header img, nav img')).find(...):
\* the first matching image in document order, as a one-element sequence;
\* the empty sequence is find's undefined.
RECURSIVE logoImg(_)
logoImg(imgs) ==
    IF imgs = <<>> THEN <<>>
    ELSE IF Head(imgs).inHeaderOrNav /\ IsLogoImg(Head(imgs)) THEN <<Head(imgs)>>
         ELSE logoImg(Tail(imgs))

\* homeLinks.find(link => link.querySelector('svg')), as a one-element
\* sequence or the empty one.  link.svg is the outerHTML of the link's first
\* svg, Null when it holds none.
RECURSIVE logoLink(_)
logoLink(links) ==
    IF links = <<>> THEN <<>>
    ELSE IF Head(links).svg # Null THEN <<Head(links)>> ELSE logoLink(Tail(links))

\* A character outside Latin1 is written as the marker "U+2713".
IsLatin1(s) == \A i \in 1..Len(s) : s[i] # "U+2713"

\* data:image/svg+xml;base64,${window.btoa(svg.outerHTML)}.  The base64
\* text is kept symbolic: a prefix marker followed by the encoded markup.
svgDataUri(outerHTML) == <<"data:image/svg+xml;base64,">> \o outerHTML

\* logoUrl after "Check Header Images first".
logoAfterImg(tree) ==
    LET found == logoImg(tree.imgs) IN
    IF found # <<>> THEN found[1].src ELSE Null

\* logoUrl after the home-link SVG step.
logoAfterSvg(tree) ==
    LET url1 == logoAfterImg(tree)
        link == logoLink(tree.homeLinks)
    IN IF ~Truthy(url1) /\ link # <<>> THEN svgDataUri(link[1].svg) ELSE url1

\* logoUrl after the og:image fallback.
logoAfterOg(tree) ==
    LET url2 == logoAfterSvg(tree) IN
    IF ~Truthy(url2) /\ tree.ogImage # Null THEN tree.ogImage ELSE url2

\* A chain whose touch-icon step lacks the !logoUrl guard.
logoUrlIconOverrides(tree) ==
    IF tree.appleIcon # Null THEN tree.appleIcon ELSE logoAfterOg(tree)

\* logoUrl after the apple-touch-icon fallback: the value returned.
logoUrl(tree) ==
    LET url3 == logoAfterOg(tree) IN
    IF ~Truthy(url3) /\ tree.appleIcon # Null THEN tree.appleIcon ELSE url3

\* window.btoa throws InvalidCharacterError on a character outside Latin1.
btoaThrows(tree) ==
    LET link == logoLink(tree.homeLinks) IN
    /\ ~Truthy(logoAfterImg(tree))
    /\ link # <<>>
    /\ ~IsLatin1(link[1].svg)

(* ------------------------------------------------------------------ *)
(* 3. Typography and 4. content                                        *)
(* ------------------------------------------------------------------ *)

\* fontFamily.split(',')[0]
RECURSIVE splitCommaFirst(_)
splitCommaFirst(s) ==
    IF s = <<>> \/ Head(s) = "," THEN <<>>
    ELSE <<Head(s)>> \o splitCommaFirst(Tail(s))

\* .replace(/['"]/g, '')
RECURSIVE stripQuotes(_)
stripQuotes(s) ==
    IF s = <<>> THEN <<>>
    ELSE IF Head(s) \in {"'", "\""} THEN stripQuotes(Tail(s))
         ELSE <<Head(s)>> \o stripQuotes(Tail(s))

bodyFn(tree) == stripQuotes(splitCommaFirst(tree.bodyFontFamily))

headingFn(tree) ==
    stripQuotes(splitCommaFirst(IF tree.hasH1 THEN tree.h1FontFamily
                                ELSE tree.bodyFontFamily))

ExcerptLength == 500

\* document.body.innerText.slice(0, 500)
bodyText(tree) ==
    SubSeq(tree.bodyText, 1,
           IF Len(tree.bodyText) < ExcerptLength THEN Len(tree.bodyText)
           ELSE ExcerptLength)

rawText(tree) ==
    <<"Heading: ">> \o (IF tree.hasH1 THEN tree.h1Text ELSE <<>>)
    \o <<"\nDescription: ">>
    \o (IF Truthy(tree.metaDescription) THEN tree.metaDescription ELSE <<>>)
    \o <<"\nContent: ">> \o bodyText(tree)

\* The object page.evaluate returns.
ExtractedData(tree) ==
    LET palette == sortedColors(tree) IN
    [colors |-> [primary |-> primaryColor(palette),
                 background |-> rgbToHex(tree.bodyBackground),
                 palette |-> palette],
     typography |-> [headings |-> headingFn(tree), body |-> bodyFn(tree)],
     logo |-> logoUrl(tree),
     rawText |-> rawText(tree)]

\* page.evaluate(() => { ... }): the returned data, or the exception the
\* in-page function raises.
Evaluate(tree) ==
    IF btoaThrows(tree)
    THEN [threw |-> TRUE, message |-> "InvalidCharacterError"]
    ELSE [threw |-> FALSE, data |-> ExtractedData(tree)]

(* ------------------------------------------------------------------ *)
(* Pages                                                               *)
(* ------------------------------------------------------------------ *)

MaxElems == 2
MaxImgs == 2
MaxColours == 10

\* The decimal text of a natural number.
RECURSIVE Decimal(_)
Decimal(n) ==
    IF n < 10 THEN <<DigitChars[n + 1]>>
    ELSE Decimal(n \div 10) \o <<DigitChars[(n % 10) + 1]>>

\* The computed-style text 'rgb(r, g, b)'.
Rgb(r, g, b) ==
    <<"r", "g", "b", "(">> \o Decimal(r) \o <<",", " ">> \o Decimal(g)
    \o <<",", " ">> \o Decimal(b) \o <<")">>

Orange == Rgb(255, 87, 51)
Slate == Rgb(68, 85, 102)
Mist == Rgb(170, 187, 204)
Navy == Rgb(17, 34, 51)
RgbWhite == Rgb(255, 255, 255)
RgbBlack == Rgb(0, 0, 0)

Element(tag, className, inHeader, inSvg, bg, color, fill, stroke) ==
    [tag |-> tag, className |-> className, inHeader |-> inHeader, inSvg |-> inSvg,
     backgroundColor |-> bg, color |-> color, fill |-> fill, stroke |-> stroke]

ClsBtnPrimary == <<"b", "t", "n", "-", "p", "r", "i", "m", "a", "r", "y">>
ClsButtonCta == <<"b", "u", "t", "t", "o", "n", "-", "c", "t", "a">>
ClsNavBtn == <<"n", "a", "v", " ", "b", "t", "n">>

ElemSet ==
    { Element("button", <<>>, TRUE, FALSE, Orange, RgbWhite, RgbBlack, NoneKeyword),
      Element("button", <<>>, TRUE, FALSE, TransparentRgba, Navy, RgbBlack, NoneKeyword),
      Element("a", ClsButtonCta, TRUE, FALSE, Mist, RgbBlack, RgbBlack, NoneKeyword),
      Element("path", <<>>, TRUE, TRUE, TransparentRgba, RgbBlack, Slate, NoneKeyword),
      Element("svg", <<>>, TRUE, FALSE, TransparentRgba, RgbBlack, Mist, Orange),
      Element("polygon", <<>>, TRUE, TRUE, TransparentRgba, RgbBlack, Orange, NoneKeyword),
      Element("button", <<>>, FALSE, FALSE, Mist, RgbBlack, RgbBlack, NoneKeyword),
      Element("div", ClsNavBtn, FALSE, FALSE, RgbWhite, RgbBlack, RgbBlack, NoneKeyword),
      Element("a", ClsBtnPrimary, FALSE, FALSE, Slate, RgbWhite, RgbBlack, NoneKeyword),
      Element("div", <<>>, FALSE, FALSE, Orange, RgbBlack, RgbBlack, NoneKeyword) }

\* Values of <meta name="theme-color" content=...>; Null when the page has
\* no such element.
ThemeSet ==
    { Null, <<>>,
      <<"#", "1", "1", "2", "2", "3", "3">>,
      <<"#", "f", "f", "f", "f", "f", "f">>,
      <<"#", "F", "F", "F", "F", "F", "F">>,
      <<"#", "a", "a", "b", "b", "c", "c">>,
      <<"#", "0", "0", "0", "0", "0", "0", "0", "0">>,
      <<"r", "e", "d">>,
      Mist }

SeqsUpTo(S, n) == UNION {[1..k -> S] : k \in 0..n}

UrlLogoPng == <<"/", "L", "o", "g", "o", ".", "p", "n", "g">>
UrlHeroJpg == <<"/", "h", "e", "r", "o", ".", "j", "p", "g">>
UrlOgPng == <<"/", "o", "g", ".", "p", "n", "g">>
UrlIconPng == <<"/", "i", "c", "o", "n", ".", "p", "n", "g">>
ClsSiteLogo == <<"s", "i", "t", "e", "-", "L", "O", "G", "O">>
AltAcme == <<"A", "c", "m", "e">>
AltAcmeLogo == <<"A", "c", "m", "e", " ", "l", "o", "g", "o">>

Img(inHeaderOrNav, className, src, alt) ==
    [inHeaderOrNav |-> inHeaderOrNav, className |-> className, src |-> src, alt |-> alt]

ImgSet ==
    { Img(TRUE, <<>>, UrlLogoPng, <<>>),
      Img(TRUE, ClsSiteLogo, <<>>, AltAcme),
      Img(TRUE, <<>>, UrlHeroJpg, AltAcmeLogo),
      Img(TRUE, <<>>, UrlHeroJpg, AltAcme),
      Img(FALSE, ClsSiteLogo, UrlLogoPng, AltAcmeLogo) }

SvgMarkup == <<"<", "s", "v", "g", "/", ">">>
SvgMarkupNonLatin1 == <<"<", "s", "v", "g", ">", "U+2713", "<", "/", "s", "v", "g", ">">>

HomeLinkSet ==
    { <<>>,
      <<[svg |-> Null]>>,
      <<[svg |-> Null], [svg |-> SvgMarkup]>>,
      <<[svg |-> SvgMarkupNonLatin1]>> }

FontStack ==
    <<"\"", "I", "n", "t", "e", "r", "\"", ",", " ", "s", "a", "n", "s">>

BaseTree ==
    [themeColor |-> Null, elems |-> <<>>, bodyBackground |-> RgbWhite,
     imgs |-> <<>>, homeLinks |-> <<>>, ogImage |-> Null, appleIcon |-> Null,
     bodyFontFamily |-> FontStack, hasH1 |-> FALSE, h1FontFamily |-> <<>>,
     h1Text |-> <<>>, metaDescription |-> Null, bodyText |-> AltAcme]

\* Pages that vary the colour-bearing part of the document.
ColourTrees ==
    { [BaseTree EXCEPT !.themeColor = t, !.elems = es] :
        t \in ThemeSet, es \in SeqsUpTo(ElemSet, MaxElems) }

\* Pages with n buttons of n distinct colours, every third one in the header.
ManyColourTrees ==
    { [BaseTree EXCEPT !.themeColor = t,
           !.elems = [i \in 1..n |->
               Element("button", <<>>, i % 3 = 0, FALSE, Rgb(17 * i, 34, 51),
                       RgbBlack, RgbBlack, NoneKeyword)]] :
        t \in ThemeSet, n \in 1..MaxColours }

\* Pages that vary the logo-bearing part of the document.
LogoTrees ==
    { [BaseTree EXCEPT !.imgs = is, !.homeLinks = hl, !.ogImage = og,
                       !.appleIcon = ai] :
        is \in SeqsUpTo(ImgSet, MaxImgs), hl \in HomeLinkSet,
        og \in {Null, <<>>, UrlOgPng}, ai \in {Null, UrlIconPng} }

Trees == ColourTrees \cup ManyColourTrees \cup LogoTrees

(* ------------------------------------------------------------------ *)
(* Requests, errors, credentials, backend responses                    *)
(* ------------------------------------------------------------------ *)

NumReq == 2

Requests == 1..NumReq

\* req.body.url: absent, the empty string, or a locator.
UrlUndefined == "(undefined)"
UrlSet == {UrlUndefined, "", "https://site.example"}

\* A url check that lets every request through.
UrlNeverMissing(u) == FALSE

\* !url
UrlMissing(u) == u \in {UrlUndefined, ""}

\* process.env.X: unset, set to the empty string, or set to a key.
EnvUnset == "(unset)"
EnvValues == {EnvUnset, "", "key"}

\* Truthiness of process.env.X.
EnvTruthy(v) == v \notin {EnvUnset, ""}

\* The error a failing browser operation rejects with.
RenderErrors == { [name |-> "Error", message |-> "net::ERR_FAILED"] }

\* The errors a failing backend operation throws: one with a message, one
\* without.
BackendErrors ==
    { [name |-> "Error", message |-> "fetch failed"],
      [name |-> "TimeoutError", message |-> ""] }

SyntaxError == [name |-> "SyntaxError", message |-> "Unexpected token"]

\* Error.prototype.toString
errorToString(e) ==
    IF e.message = "" THEN <<e.name>> ELSE <<e.name, ": ", e.message>>

\* JSON values: an object wraps a record, null is itself.
JsonObject(r) == [kind |-> "object", value |-> r]
JsonNull == [kind |-> "null"]

\* Texts a backend may answer with, as sequences of tokens: a code-fence
\* marker, a line break, or one JSON (or non-JSON) text.
TxtFull == "{\"tone\":\"Bold\",\"audience\":\"Makers\",\"vibe\":\"Neon brutalism\"}"
TxtToneOnly == "{\"tone\":\"Bold\"}"
TxtNull == "null"
TxtProse == "Sure, here is the analysis"

\* The two fence markers of a markdown code block, each one token.
FenceJson == "<fence>json"
Fence == "<fence>"

BackendTexts ==
    { <<TxtFull>>,
      <<FenceJson, "\n", TxtFull, "\n", Fence>>,
      <<TxtToneOnly>>,
      <<TxtNull>>,
      <<TxtProse>> }

RECURSIVE removeToken(_, _)
removeToken(text, tok) ==
    IF text = <<>> THEN <<>>
    ELSE IF Head(text) = tok THEN removeToken(Tail(text), tok)
         ELSE <<Head(text)>> \o removeToken(Tail(text), tok)

\* String.prototype.trim over line-break tokens.
RECURSIVE trim(_)
trim(text) ==
    IF text = <<>> THEN <<>>
    ELSE IF Head(text) = "\n" THEN trim(Tail(text))
    ELSE IF text[Len(text)] = "\n" THEN trim(SubSeq(text, 1, Len(text) - 1))
    ELSE text

\* text.replace(/<fence>json/g, '').replace(/<fence>/g, '').trim()
cleaned(text) == trim(removeToken(removeToken(text, FenceJson), Fence))

\* JSON.parse: the value of a text that is exactly one JSON text; anything
\* else raises SyntaxError.
JSONparseThrows(text) ==
    ~(Len(text) = 1 /\ text[1] \in {TxtFull, TxtToneOnly, TxtNull})

JSONparse(text) ==
    IF text[1] = TxtFull
    THEN JsonObject([tone |-> "Bold", audience |-> "Makers", vibe |-> "Neon brutalism"])
    ELSE IF text[1] = TxtToneOnly
    THEN JsonObject([tone |-> "Bold"])
    ELSE JsonNull

\* A selection that tries the OpenAI credential first.
selectBackendOpenAIFirst(e) ==
    IF EnvTruthy(e.OPENAI_API_KEY) THEN "openai"
    ELSE IF EnvTruthy(e.GOOGLE_API_KEY) THEN "google"
    ELSE "none"

\* if (process.env.GOOGLE_API_KEY) ... else if (process.env.OPENAI_API_KEY)
\* ... else ...: the branch taken.
selectBackend(e) ==
    IF EnvTruthy(e.GOOGLE_API_KEY) THEN "google"
    ELSE IF EnvTruthy(e.OPENAI_API_KEY) THEN "openai"
    ELSE "none"

\* let vibeAnalysis = { tone: "Analyzing...", ... }
InitialVibe ==
    JsonObject([tone |-> "Analyzing...", audience |-> "General",
                summary |-> "Could not generate analysis."])

\* The "Mock Fallback if no keys".
DemoVibe ==
    JsonObject([tone |-> "Demo Mode", audience |-> "No API Key",
                vibe |-> "Key missing. Check .env file and restart server."])

\* The value assigned in catch (e): vibe is Error: ${e.message || e.toString()}.
ErrorVibe(e) ==
    JsonObject([tone |-> "Error", audience |-> "Analysis Failed",
                vibe |-> <<"Error: ">> \o
                         (IF e.message # "" THEN <<e.message>> ELSE errorToString(e))])

\* A response body that carries the vibe section alone.
SuccessBodyVibeOnly(d, v) == [vibe |-> v]

\* { ...data, vibe: vibeAnalysis }
SuccessBody(d, v) ==
    [colors |-> d.colors, typography |-> d.typography, logo |-> d.logo,
     rawText |-> d.rawText, vibe |-> v]

\* Documents a request's page may render: one that extracts, one whose
\* extraction throws inside the page.
PageWithLogo ==
    [BaseTree EXCEPT !.themeColor = <<"#", "1", "1", "2", "2", "3", "3">>,
                     !.imgs = <<Img(TRUE, <<>>, UrlLogoPng, <<>>)>>]

PageWithNonLatin1Svg ==
    [BaseTree EXCEPT !.homeLinks = <<[svg |-> SvgMarkupNonLatin1]>>]

HandlerTrees == {PageWithLogo, PageWithNonLatin1Svg}

(* ------------------------------------------------------------------ *)
(* State                                                               *)
(* ------------------------------------------------------------------ *)

VARIABLES
    document,         \* the rendered document handed to page.evaluate (extraction runs)
    evaluated,    \* <<>> before page.evaluate, <<its outcome>> after
    env,          \* process.env: GOOGLE_API_KEY and OPENAI_API_KEY
    pc,           \* per request: the await the handler is suspended at
    url,          \* per request: req.body.url
    browser,      \* per request: the handler's local browser (0: undefined)
    page,         \* per request: whether browser.newPage() returned a page
    site,         \* per request: <<document>> once page.goto has loaded it
    data,         \* per request: <<data>> once page.evaluate has returned
    vibeAnalysis, \* per request: the handler's local vibeAnalysis (<<>>: not declared yet)
    invoked,      \* per request: the backends whose branch was entered, in order
    responses,    \* per request: the responses written to res, in order
    thrown,       \* per request: <<stage, error>> of every exception raised, in order
    browsers      \* per launching request: the browser puppeteer.launch made for it

handlerVars ==
    <<env, pc, url, browser, page, site, data, vibeAnalysis, invoked, responses,
      thrown, browsers>>

extractVars == <<document, evaluated>>

vars == <<document, evaluated, env, pc, url, browser, page, site, data, vibeAnalysis,
          invoked, responses, thrown, browsers>>

NoBrowser == [state |-> "none", closedBy |-> 0]

HandlerInit ==
    /\ env \in [GOOGLE_API_KEY : EnvValues, OPENAI_API_KEY : EnvValues]
    /\ pc = [r \in Requests |-> "idle"]
    /\ url = [r \in Requests |-> UrlUndefined]
    /\ browser = [r \in Requests |-> 0]
    /\ page = [r \in Requests |-> FALSE]
    /\ site = [r \in Requests |-> <<>>]
    /\ data = [r \in Requests |-> <<>>]
    /\ vibeAnalysis = [r \in Requests |-> <<>>]
    /\ invoked = [r \in Requests |-> <<>>]
    /\ responses = [r \in Requests |-> <<>>]
    /\ thrown = [r \in Requests |-> <<>>]
    /\ browsers = [r \in Requests |-> NoBrowser]

(* ------------------------------------------------------------------ *)
(* The handler, one action per continuation                            *)
(* ------------------------------------------------------------------ *)

\* A browser variable shared by all requests: a later launch overwrites it.
browserShared(r) ==
    IF \E q \in Requests : q # r /\ browsers[q].state = "open"
    THEN CHOOSE q \in Requests : q # r /\ browsers[q].state = "open"
    ELSE browser[r]

\* The browser the finally block closes: the handler's own local.
browserToClose(r) == browser[r]

\* finally { if (browser) await browser.close(); }
Finally(r) ==
    pc' = [pc EXCEPT ![r] = IF browser[r] # 0 THEN "close" ELSE "done"]

\* A catch that is not followed by a finally block: the close sits at the
\* end of the try block only.
CatchWithoutFinally(r, stage, e) ==
    /\ responses' = [responses EXCEPT ![r] =
           Append(@, [status |-> 500,
                      body |-> [error |-> "Failed to analyze URL",
                                details |-> e.message]])]
    /\ thrown' = [thrown EXCEPT ![r] = Append(@, <<stage, e>>)]
    /\ pc' = [pc EXCEPT ![r] = "done"]

\* catch (error) { res.status(500).json({ error, details: error.message }) }
\* followed by finally.
Catch(r, stage, e) ==
    /\ responses' = [responses EXCEPT ![r] =
           Append(@, [status |-> 500,
                      body |-> [error |-> "Failed to analyze URL",
                                details |-> e.message]])]
    /\ thrown' = [thrown EXCEPT ![r] = Append(@, <<stage, e>>)]
    /\ Finally(r)

\* res.json({ ...data, vibe: vibeAnalysis }) followed by finally.
SendSuccess(r, d, v) ==
    /\ responses' = [responses EXCEPT ![r] =
           Append(@, [status |-> 200, body |-> SuccessBody(d, v)])]
    /\ Finally(r)

\* A classification stage without its own try/catch: the failure reaches
\* the outer catch.
VibeCatchRethrows(r, stage, e) ==
    /\ UNCHANGED vibeAnalysis
    /\ Catch(r, stage, e)

\* The inner catch (e): the sentinel, then the success response.
VibeCatch(r, stage, e) ==
    /\ vibeAnalysis' = [vibeAnalysis EXCEPT ![r] = ErrorVibe(e)]
    /\ thrown' = [thrown EXCEPT ![r] = Append(@, <<stage, e>>)]
    /\ SendSuccess(r, data[r][1], ErrorVibe(e))

\* The request arrives: the url check, then puppeteer.launch is awaited.
Receive(r) ==
    /\ pc[r] = "idle"
    /\ \E u \in UrlSet :
         /\ url' = [url EXCEPT ![r] = u]
         /\ IF UrlMissing(u)
            THEN /\ responses' = [responses EXCEPT ![r] =
                        Append(@, [status |-> 400,
                                   body |-> [error |-> "URL is required"]])]
                 /\ pc' = [pc EXCEPT ![r] = "done"]
            ELSE /\ pc' = [pc EXCEPT ![r] = "launch"]
                 /\ UNCHANGED responses
    /\ UNCHANGED <<env, browser, page, site, data, vibeAnalysis, invoked, thrown,
                   browsers, extractVars>>

LaunchResolve(r) ==
    /\ pc[r] = "launch"
    /\ browsers' = [browsers EXCEPT ![r] = [state |-> "open", closedBy |-> 0]]
    /\ browser' = [browser EXCEPT ![r] = r]
    /\ pc' = [pc EXCEPT ![r] = "newPage"]
    /\ UNCHANGED <<env, url, page, site, data, vibeAnalysis, invoked, responses,
                   thrown, extractVars>>

LaunchReject(r) ==
    /\ pc[r] = "launch"
    /\ \E e \in RenderErrors : Catch(r, "launch", e)
    /\ UNCHANGED <<env, url, browser, page, site, data, vibeAnalysis, invoked,
                   browsers, extractVars>>

NewPageResolve(r) ==
    /\ pc[r] = "newPage"
    /\ page' = [page EXCEPT ![r] = TRUE]
    /\ pc' = [pc EXCEPT ![r] = "setUserAgent"]
    /\ UNCHANGED <<env, url, browser, site, data, vibeAnalysis, invoked, responses,
                   thrown, browsers, extractVars>>

NewPageReject(r) ==
    /\ pc[r] = "newPage"
    /\ \E e \in RenderErrors : Catch(r, "newPage", e)
    /\ UNCHANGED <<env, url, browser, page, site, data, vibeAnalysis, invoked,
                   browsers, extractVars>>

SetUserAgentResolve(r) ==
    /\ pc[r] = "setUserAgent"
    /\ pc' = [pc EXCEPT ![r] = "goto"]
    /\ UNCHANGED <<env, url, browser, page, site, data, vibeAnalysis, invoked,
                   responses, thrown, browsers, extractVars>>

SetUserAgentReject(r) ==
    /\ pc[r] = "setUserAgent"
    /\ \E e \in RenderErrors : Catch(r, "setUserAgent", e)
    /\ UNCHANGED <<env, url, browser, page, site, data, vibeAnalysis, invoked,
                   browsers, extractVars>>

\* page.goto resolves: the document is loaded; the settle timer is awaited.
GotoResolve(r) ==
    /\ pc[r] = "goto"
    /\ \E t \in HandlerTrees : site' = [site EXCEPT ![r] = <<t>>]
    /\ pc' = [pc EXCEPT ![r] = "settle"]
    /\ UNCHANGED <<env, url, browser, page, data, vibeAnalysis, invoked, responses,
                   thrown, browsers, extractVars>>

GotoReject(r) ==
    /\ pc[r] = "goto"
    /\ \E e \in RenderErrors : Catch(r, "goto", e)
    /\ UNCHANGED <<env, url, browser, page, site, data, vibeAnalysis, invoked,
                   browsers, extractVars>>

\* The 2000 ms timer fires; page.evaluate is awaited.
Settle(r) ==
    /\ pc[r] = "settle"
    /\ pc' = [pc EXCEPT ![r] = "evaluate"]
    /\ UNCHANGED <<env, url, browser, page, site, data, vibeAnalysis, invoked,
                   responses, thrown, browsers, extractVars>>

\* page.evaluate resolves with data; the handler runs on to the backend
\* selection: an import is awaited, or the demo value is sent at once.
EvaluateResolve(r) ==
    /\ pc[r] = "evaluate"
    /\ \E outcome \in {Evaluate(site[r][1])} :
       /\ ~outcome.threw
       /\ data' = [data EXCEPT ![r] = <<outcome.data>>]
       /\ IF selectBackend(env) = "google"
          THEN /\ vibeAnalysis' = [vibeAnalysis EXCEPT ![r] = InitialVibe]
               /\ invoked' = [invoked EXCEPT ![r] = Append(@, "google")]
               /\ pc' = [pc EXCEPT ![r] = "importGoogle"]
               /\ UNCHANGED responses
          ELSE IF selectBackend(env) = "openai"
          THEN /\ vibeAnalysis' = [vibeAnalysis EXCEPT ![r] = InitialVibe]
               /\ invoked' = [invoked EXCEPT ![r] = Append(@, "openai")]
               /\ pc' = [pc EXCEPT ![r] = "importOpenAI"]
               /\ UNCHANGED responses
          ELSE /\ vibeAnalysis' = [vibeAnalysis EXCEPT ![r] = DemoVibe]
               /\ SendSuccess(r, outcome.data, DemoVibe)
               /\ UNCHANGED invoked
    /\ UNCHANGED <<env, url, browser, page, site, thrown, browsers, extractVars>>

\* page.evaluate rejects: the in-page function threw, or the page failed.
EvaluateReject(r) ==
    /\ pc[r] = "evaluate"
    /\ \E outcome \in {Evaluate(site[r][1])} :
       \E e \in RenderErrors \cup
                (IF outcome.threw
                 THEN {[name |-> "Error", message |-> outcome.message]}
                 ELSE {}) :
         Catch(r, "evaluate", e)
    /\ UNCHANGED <<env, url, browser, page, site, data, vibeAnalysis, invoked,
                   browsers, extractVars>>

\* import('@google/generative-ai') resolves; generateContent is awaited.
ImportGoogleResolve(r) ==
    /\ pc[r] = "importGoogle"
    /\ pc' = [pc EXCEPT ![r] = "generateContent"]
    /\ UNCHANGED <<env, url, browser, page, site, data, vibeAnalysis, invoked,
                   responses, thrown, browsers, extractVars>>

ImportGoogleReject(r) ==
    /\ pc[r] = "importGoogle"
    /\ \E e \in BackendErrors : VibeCatch(r, "importGoogle", e)
    /\ UNCHANGED <<env, url, browser, page, site, data, invoked, browsers,
                   extractVars>>

\* model.generateContent resolves; result.response is awaited.
GenerateContentResolve(r) ==
    /\ pc[r] = "generateContent"
    /\ pc' = [pc EXCEPT ![r] = "response"]
    /\ UNCHANGED <<env, url, browser, page, site, data, vibeAnalysis, invoked,
                   responses, thrown, browsers, extractVars>>

GenerateContentReject(r) ==
    /\ pc[r] = "generateContent"
    /\ \E e \in BackendErrors : VibeCatch(r, "generateContent", e)
    /\ UNCHANGED <<env, url, browser, page, site, data, invoked, browsers,
                   extractVars>>

\* response.text() returns; the text is cleaned and parsed.
GoogleResponse(r) ==
    /\ pc[r] = "response"
    /\ \E text \in BackendTexts :
         IF JSONparseThrows(cleaned(text))
         THEN VibeCatch(r, "parse", SyntaxError)
         ELSE /\ vibeAnalysis' = [vibeAnalysis EXCEPT ![r] = JSONparse(cleaned(text))]
              /\ SendSuccess(r, data[r][1], JSONparse(cleaned(text)))
              /\ UNCHANGED thrown
    /\ UNCHANGED <<env, url, browser, page, site, data, invoked, browsers,
                   extractVars>>

\* response.text() throws.
GoogleResponseThrows(r) ==
    /\ pc[r] = "response"
    /\ \E e \in BackendErrors : VibeCatch(r, "text", e)
    /\ UNCHANGED <<env, url, browser, page, site, data, invoked, browsers,
                   extractVars>>

\* import('openai') resolves; chat.completions.create is awaited.
ImportOpenAIResolve(r) ==
    /\ pc[r] = "importOpenAI"
    /\ pc' = [pc EXCEPT ![r] = "create"]
    /\ UNCHANGED <<env, url, browser, page, site, data, vibeAnalysis, invoked,
                   responses, thrown, browsers, extractVars>>

ImportOpenAIReject(r) ==
    /\ pc[r] = "importOpenAI"
    /\ \E e \in BackendErrors : VibeCatch(r, "importOpenAI", e)
    /\ UNCHANGED <<env, url, browser, page, site, data, invoked, browsers,
                   extractVars>>

\* chat.completions.create resolves; the message content is parsed as it is.
CreateResolve(r) ==
    /\ pc[r] = "create"
    /\ \E text \in BackendTexts :
         IF JSONparseThrows(text)
         THEN VibeCatch(r, "parse", SyntaxError)
         ELSE /\ vibeAnalysis' = [vibeAnalysis EXCEPT ![r] = JSONparse(text)]
              /\ SendSuccess(r, data[r][1], JSONparse(text))
              /\ UNCHANGED thrown
    /\ UNCHANGED <<env, url, browser, page, site, data, invoked, browsers,
                   extractVars>>

CreateReject(r) ==
    /\ pc[r] = "create"
    /\ \E e \in BackendErrors : VibeCatch(r, "create", e)
    /\ UNCHANGED <<env, url, browser, page, site, data, invoked, browsers,
                   extractVars>>

\* browser.close() resolves and the handler returns.
CloseResolve(r) ==
    /\ pc[r] = "close"
    /\ browsers' = [browsers EXCEPT ![browserToClose(r)] =
                       [state |-> "closed", closedBy |-> r]]
    /\ pc' = [pc EXCEPT ![r] = "done"]
    /\ UNCHANGED <<env, url, browser, page, site, data, vibeAnalysis, invoked,
                   responses, thrown, extractVars>>

Init ==
    /\ HandlerInit
    /\ document = BaseTree
    /\ evaluated = <<>>

Next ==
    \E r \in Requests :
        \/ Receive(r)
        \/ LaunchResolve(r)
        \/ LaunchReject(r)
        \/ NewPageResolve(r)
        \/ NewPageReject(r)
        \/ SetUserAgentResolve(r)
        \/ SetUserAgentReject(r)
        \/ GotoResolve(r)
        \/ GotoReject(r)
        \/ Settle(r)
        \/ EvaluateResolve(r)
        \/ EvaluateReject(r)
        \/ ImportGoogleResolve(r)
        \/ ImportGoogleReject(r)
        \/ GenerateContentResolve(r)
        \/ GenerateContentReject(r)
        \/ GoogleResponse(r)
        \/ GoogleResponseThrows(r)
        \/ ImportOpenAIResolve(r)
        \/ ImportOpenAIReject(r)
        \/ CreateResolve(r)
        \/ CreateReject(r)
        \/ CloseResolve(r)

Spec == Init /\ [][Next]_vars

(* ------------------------------------------------------------------ *)
(* Extraction on its own: page.evaluate over the bounded set of pages  *)
(* ------------------------------------------------------------------ *)

ExtractInit ==
    /\ document \in Trees
    /\ evaluated = <<>>
    /\ env = [GOOGLE_API_KEY |-> EnvUnset, OPENAI_API_KEY |-> EnvUnset]
    /\ pc = [r \in Requests |-> "idle"]
    /\ url = [r \in Requests |-> UrlUndefined]
    /\ browser = [r \in Requests |-> 0]
    /\ page = [r \in Requests |-> FALSE]
    /\ site = [r \in Requests |-> <<>>]
    /\ data = [r \in Requests |-> <<>>]
    /\ vibeAnalysis = [r \in Requests |-> <<>>]
    /\ invoked = [r \in Requests |-> <<>>]
    /\ responses = [r \in Requests |-> <<>>]
    /\ thrown = [r \in Requests |-> <<>>]
    /\ browsers = [r \in Requests |-> NoBrowser]

\* page.evaluate(() => { ... }) over the document.
EvaluatePage ==
    /\ evaluated = <<>>
    /\ evaluated' = <<Evaluate(document)>>
    /\ UNCHANGED <<document, handlerVars>>

ExtractNext == EvaluatePage

SpecExtract == ExtractInit /\ [][ExtractNext]_vars

(* ------------------------------------------------------------------ *)
(* Properties of the handler (checked under Spec)                      *)
(* ------------------------------------------------------------------ *)

RenderStages == {"launch", "newPage", "setUserAgent", "goto", "evaluate"}

ExtractionFields == {"colors", "typography", "logo", "rawText"}

\* The stage of the first exception a request raised ("" when none).
FirstThrownStage(r) == IF thrown[r] = <<>> THEN "" ELSE thrown[r][1][1]

\* page.evaluate over each document a request may render, tabulated as
\* pairs <<document, outcome>>.
Outcomes ==
    << <<PageWithLogo, Evaluate(PageWithLogo)>>,
       <<PageWithNonLatin1Svg, Evaluate(PageWithNonLatin1Svg)>> >>

OutcomeOf(t) == Outcomes[CHOOSE i \in 1..Len(Outcomes) : Outcomes[i][1] = t][2]

\* The response body carries the extraction data d unchanged.
CarriesData(b, d) ==
    /\ b.colors = d.colors
    /\ b.typography = d.typography
    /\ b.logo = d.logo
    /\ b.rawText = d.rawText

\* C1: a request that launched a browser and has terminated, on whichever
\* path (success, navigation failure, newPage/setUserAgent/evaluate failure,
\* classification failure), has closed that browser: no terminated request
\* leaves its browser open.
C1_BrowserClosedOnEveryExit ==
    \A r \in Requests :
        /\ pc[r] = "done" => browsers[r].state # "open"
        /\ (pc[r] = "done" /\ browser[r] # 0) => browsers[browser[r]].state = "closed"
        /\ (browsers[r].state = "open" /\ responses[r] # <<>>) => pc[r] = "close"

\* C1 witness: one request ended on a navigation failure and another on a
\* classification failure, each with its browser launched and closed.
C1_Witness ==
    \E r, q \in Requests :
        /\ pc[r] = "done" /\ FirstThrownStage(r) = "goto"
        /\ browsers[r].state = "closed"
        /\ pc[q] = "done" /\ FirstThrownStage(q) = "parse"
        /\ browsers[q].state = "closed"

\* C2: when extraction succeeded and the selected backend failed (import,
\* call or parse), the request answers once, with a success response that
\* holds the extraction data unchanged and a vibe whose tone and audience
\* are the error sentinels and whose third field (the code's key "vibe", the
\* spec's summary) embeds the failure's message.
C2_BackendFailureStillSucceeds ==
    \A r \in Requests :
        (pc[r] \in {"close", "done"} /\ data[r] # <<>> /\ invoked[r] # <<>>
         /\ thrown[r] # <<>>) =>
            /\ Len(responses[r]) = 1
            /\ responses[r][1].status = 200
            /\ data[r][1] = OutcomeOf(site[r][1]).data
            /\ CarriesData(responses[r][1].body, data[r][1])
            /\ LET v == responses[r][1].body.vibe
                   e == thrown[r][1][2]
               IN /\ v.kind = "object"
                  /\ DOMAIN v.value = {"tone", "audience", "vibe"}
                  /\ v.value.tone = "Error"
                  /\ v.value.audience = "Analysis Failed"
                  /\ e.message # "" =>
                        \E i \in 1..Len(v.value.vibe) : v.value.vibe[i] = e.message

\* C2 witness: a request whose backend answered with text that does not
\* parse has terminated with its one response.
C2_Witness ==
    \E r \in Requests :
        /\ pc[r] = "done"
        /\ FirstThrownStage(r) = "parse"
        /\ invoked[r] = <<"google">>
        /\ Len(responses[r]) = 1 /\ responses[r][1].status = 200

\* C3: the backend entered is decided by the credentials alone: Google when
\* its key is present (whatever the OpenAI key), OpenAI only when the Google
\* key is absent and its own present, none when neither is present, and then
\* the demo sentinel is answered; at most one backend per request, and a
\* Google failure never brings OpenAI in.
C3_BackendSelection ==
    \A r \in Requests :
        LET googlePresent == env.GOOGLE_API_KEY \notin {EnvUnset, ""}
            openaiPresent == env.OPENAI_API_KEY \notin {EnvUnset, ""}
        IN /\ Len(invoked[r]) <= 1
           /\ data[r] = <<>> => invoked[r] = <<>>
           /\ (data[r] # <<>> /\ googlePresent) => invoked[r] = <<"google">>
           /\ (data[r] # <<>> /\ ~googlePresent /\ openaiPresent) =>
                  invoked[r] = <<"openai">>
           /\ (data[r] # <<>> /\ ~googlePresent /\ ~openaiPresent) =>
                  /\ invoked[r] = <<>>
                  /\ Len(responses[r]) = 1
                  /\ responses[r][1].status = 200
                  /\ responses[r][1].body.vibe.kind = "object"
                  /\ responses[r][1].body.vibe.value.tone = "Demo Mode"
                  /\ responses[r][1].body.vibe.value.audience = "No API Key"

\* C3 witness: both keys present, Google was entered and failed, the request
\* terminated and OpenAI was never entered.
C3_Witness ==
    \E r \in Requests :
        /\ env.GOOGLE_API_KEY = "key" /\ env.OPENAI_API_KEY = "key"
        /\ pc[r] = "done"
        /\ FirstThrownStage(r) = "generateContent"
        /\ invoked[r] = <<"google">>

\* C6: a request without a locator is answered with the client error and
\* nothing else: no browser launched, no page opened, no backend entered.
C6_MissingLocatorRejected ==
    \A r \in Requests :
        (pc[r] # "idle" /\ url[r] \in {UrlUndefined, ""}) =>
            /\ pc[r] = "done"
            /\ responses[r] = <<[status |-> 400, body |-> [error |-> "URL is required"]]>>
            /\ browsers[r].state = "none"
            /\ browser[r] = 0
            /\ ~page[r]
            /\ site[r] = <<>>
            /\ invoked[r] = <<>>

\* C6 witness: a request that came without a url has been answered.
C6_Witness ==
    \E r \in Requests :
        /\ pc[r] = "done" /\ url[r] = UrlUndefined
        /\ Len(responses[r]) = 1 /\ responses[r][1].status = 400

\* C7: every success response carries a vibe that is an object with exactly
\* the three fields tone, audience and the summary text (the code's key
\* "vibe"): on the parsed path, the no-backend path and the failure path.
C7_VibeHasThreeFields ==
    \A r \in Requests : \A i \in 1..Len(responses[r]) :
        responses[r][i].status = 200 =>
            /\ responses[r][i].body.vibe.kind = "object"
            /\ DOMAIN responses[r][i].body.vibe.value = {"tone", "audience", "vibe"}

\* C8: a request with a locator answers at most once, and exactly once when
\* its handler has left the try block; the response is a success payload
\* with all extraction fields and a vibe, or the server error with the
\* failure's message; a failure of launch, newPage, setUserAgent, goto or
\* evaluate gives the server error and no backend is entered.
C8_ExactlyOneCompleteResponse ==
    \A r \in Requests :
        (pc[r] # "idle" /\ url[r] \notin {UrlUndefined, ""}) =>
            /\ Len(responses[r]) <= 1
            /\ pc[r] \in {"close", "done"} <=> Len(responses[r]) = 1
            /\ \A i \in 1..Len(responses[r]) :
                 LET res == responses[r][i] IN
                 \/ /\ res.status = 200
                    /\ DOMAIN res.body = ExtractionFields \cup {"vibe"}
                    /\ data[r] # <<>>
                    /\ CarriesData(res.body, data[r][1])
                    /\ FirstThrownStage(r) \notin RenderStages
                 \/ /\ res.status = 500
                    /\ DOMAIN res.body = {"error", "details"}
                    /\ thrown[r] # <<>>
                    /\ res.body.details = thrown[r][1][2].message
            /\ FirstThrownStage(r) \in RenderStages =>
                 /\ Len(responses[r]) = 1
                 /\ responses[r][1].status = 500
                 /\ invoked[r] = <<>>

\* C8 witness: one request ended with the server error after a navigation
\* failure, another with a complete success payload.
C8_Witness ==
    \E r, q \in Requests :
        /\ pc[r] = "done" /\ FirstThrownStage(r) = "goto"
        /\ Len(responses[r]) = 1 /\ responses[r][1].status = 500
        /\ pc[q] = "done" /\ thrown[q] = <<>>
        /\ Len(responses[q]) = 1 /\ responses[q][1].status = 200

\* C10: under every interleaving each request holds and closes only the
\* browser it launched, its response is that of its own page, its own
\* failures and the credentials, and when every request has terminated no
\* browser is open.
C10_RequestsIndependent ==
    /\ \A r \in Requests :
          /\ browser[r] \in {0, r}
          /\ browsers[r].closedBy \in {0, r}
          /\ browsers[r].state = "closed" => pc[r] = "done"
          /\ \A i \in 1..Len(responses[r]) :
                LET res == responses[r][i] IN
                /\ res.status = 200 =>
                      /\ site[r] # <<>>
                      /\ CarriesData(res.body, OutcomeOf(site[r][1]).data)
                      /\ thrown[r] = <<>> /\ invoked[r] = <<>> =>
                            res.body.vibe.value.tone = "Demo Mode"
                /\ res.status = 500 =>
                      /\ thrown[r] # <<>>
                      /\ res.body.details = thrown[r][1][2].message
    /\ (\A r \in Requests : pc[r] = "done") =>
          \A r \in Requests : browsers[r].state # "open"

\* C10 witness: two requests ran interleaved, one failed at navigation and
\* one succeeded, and each browser was closed by the request that launched it.
C10_Witness ==
    \E r, q \in Requests :
        /\ r # q
        /\ pc[r] = "done" /\ FirstThrownStage(r) = "goto"
        /\ browsers[r].closedBy = r
        /\ pc[q] = "done" /\ thrown[q] = <<>>
        /\ Len(responses[q]) = 1 /\ responses[q][1].status = 200
        /\ browsers[q].closedBy = q

(* ------------------------------------------------------------------ *)
(* Properties of the extraction (checked under SpecExtract)            *)
(* ------------------------------------------------------------------ *)

\* The extraction has run and returned data.
Extracted == evaluated # <<>> /\ ~evaluated[1].threw

PaletteOut == evaluated[1].data.colors.palette

LogoOut == evaluated[1].data.logo

\* The colour a value denotes: its 6-hex-digit upper-case form, Null when
\* the value has no three numeric components.
CanonicalHex(c) ==
    LET h == rgbToHex(c) IN IF h = Null THEN Null ELSE toUpperCase(h)

\* C4: for every page the palette has at most 8 entries, no two entries
\* denote the same colour, and no entry denotes white, black or transparent
\* black, whatever the letter case of a hex value the page gave.
C4_PaletteBoundedDistinctFiltered ==
    Extracted =>
        /\ Len(PaletteOut) <= 8
        /\ \A i, j \in 1..Len(PaletteOut) :
              i # j => toUpperCase(PaletteOut[i]) # toUpperCase(PaletteOut[j])
        /\ \A i \in 1..Len(PaletteOut) :
              toUpperCase(PaletteOut[i]) \notin {White, Black, TransparentBlack}

\* The observations of a page in scan order, with the weight of their source.
RECURSIVE HeaderButtonObservations(_)
HeaderButtonObservations(elems) ==
    IF elems = <<>> THEN <<>>
    ELSE (IF MatchesHeaderButton(Head(elems))
          THEN <<[c |-> Head(elems).backgroundColor, w |-> 10]>>
               \o (IF Head(elems).backgroundColor = TransparentRgba
                   THEN <<[c |-> Head(elems).color, w |-> 5]>> ELSE <<>>)
          ELSE <<>>)
         \o HeaderButtonObservations(Tail(elems))

RECURSIVE HeaderVectorObservations(_)
HeaderVectorObservations(elems) ==
    IF elems = <<>> THEN <<>>
    ELSE (IF MatchesHeaderSvg(Head(elems))
          THEN (IF Head(elems).fill \notin {<<>>, NoneKeyword}
                THEN <<[c |-> Head(elems).fill, w |-> 8]>> ELSE <<>>)
               \o (IF Head(elems).stroke \notin {<<>>, NoneKeyword}
                   THEN <<[c |-> Head(elems).stroke, w |-> 8]>> ELSE <<>>)
          ELSE <<>>)
         \o HeaderVectorObservations(Tail(elems))

RECURSIVE DocumentButtonObservations(_)
DocumentButtonObservations(elems) ==
    IF elems = <<>> THEN <<>>
    ELSE (IF MatchesButton(Head(elems))
          THEN <<[c |-> Head(elems).backgroundColor, w |-> 3]>> ELSE <<>>)
         \o DocumentButtonObservations(Tail(elems))

Observations(t) ==
    (IF t.themeColor # Null THEN <<[c |-> t.themeColor, w |-> 20]>> ELSE <<>>)
    \o HeaderButtonObservations(t.elems)
    \o HeaderVectorObservations(t.elems)
    \o DocumentButtonObservations(t.elems)

\* The palette p ranks the accepted colours of the observations obs, colours
\* being told apart by Hex: the first 8 by summed weight descending, equal
\* weights in first-observed order.
RanksObservations(p, obs, Hex(_)) ==
    LET Accepted(i) == Hex(obs[i].c) \notin {Null, White, Black, TransparentBlack}
        Colours == {Hex(obs[i].c) : i \in {k \in 1..Len(obs) : Accepted(k)}}
        RECURSIVE SumTo(_, _)
        SumTo(h, n) ==
            IF n = 0 THEN 0
            ELSE SumTo(h, n - 1) + (IF Hex(obs[n].c) = h THEN obs[n].w ELSE 0)
        Weight(h) == SumTo(h, Len(obs))
        First(h) == CHOOSE i \in 1..Len(obs) :
                        /\ Hex(obs[i].c) = h
                        /\ \A k \in 1..(i - 1) : Hex(obs[k].c) # h
        Ahead(x, y) ==
            \/ Weight(x) > Weight(y)
            \/ Weight(x) = Weight(y) /\ First(x) < First(y)
    IN /\ Len(p) = (IF Cardinality(Colours) < 8 THEN Cardinality(Colours) ELSE 8)
       /\ \A i \in 1..Len(p) : p[i] \in Colours
       /\ \A i, j \in 1..Len(p) : i < j => Ahead(p[i], p[j])
       /\ \A h \in Colours :
             (\A i \in 1..Len(p) : p[i] # h) => \A i \in 1..Len(p) : Ahead(p[i], h)

\* C9: the palette is the first 8 of the distinct accepted colours by
\* accumulated weight descending (theme 20, header interactive background
\* 10, header interactive text on a transparent background 5, header vector
\* fill and stroke 8 each, interactive background anywhere 3), ties in
\* first-observed order; colours and entries are compared by the colour they
\* denote, not by the letter case of their text.
C9_PaletteRankedByWeight ==
    Extracted =>
        RanksObservations([i \in 1..Len(PaletteOut) |-> toUpperCase(PaletteOut[i])],
                          Observations(document), CanonicalHex)

\* The first header/navigation image that carries "logo", as a one-element
\* sequence (empty: strategy 1 has no match).
Strategy1(t) ==
    LET hits == {i \in 1..Len(t.imgs) :
                    t.imgs[i].inHeaderOrNav /\ IsLogoImg(t.imgs[i])}
    IN IF hits = {} THEN <<>>
       ELSE <<t.imgs[CHOOSE i \in hits : \A k \in hits : i <= k].src>>

\* The first home link holding a vector graphic, encoded (strategy 2).
Strategy2(t) ==
    LET hits == {i \in 1..Len(t.homeLinks) : t.homeLinks[i].svg # Null}
    IN IF hits = {} THEN <<>>
       ELSE <<svgDataUri(t.homeLinks[CHOOSE i \in hits : \A k \in hits : i <= k].svg)>>

\* The social-preview image (strategy 3) and the touch icon (strategy 4).
Strategy3(t) == IF t.ogImage = Null THEN <<>> ELSE <<t.ogImage>>
Strategy4(t) == IF t.appleIcon = Null THEN <<>> ELSE <<t.appleIcon>>

Gave(s) == s # <<>> /\ s[1] # <<>>

====
